---- MODULE Spec2Model ----
(***************************************************************************)
(* Model of the issue labeler action (src/src/index.js).  The file holds   *)
(* two revisions of run(): the first (lines 7-162) asks the model for      *)
(* structured output and validates each candidate's name; the second       *)
(* (lines 171-315) parses free text with a regex fallback and re-lists the *)
(* store after a failed creation.  A run is a process r; its revision is   *)
(* rev[r].  The label store is the one shared resource.                    *)
(***************************************************************************)
EXTENDS Naturals, Sequences, FiniteSets

\* ------------------------------------------------------------ bounds
\* Longest candidate array the model service returns.
MaxCands == 2

Runs == {1, 2}

\* ------------------------------------------------------------ strings
\* A string is a sequence of one-character strings.
bug == <<"b", "u", "g">>
Bug == <<"B", "u", "g">>
docs == <<"d", "o", "c", "s">>
feature == <<"f", "e", "a", "t", "u", "r", "e">>
Feature == <<"F", "e", "a", "t", "u", "r", "e">>
blank == <<" ">>
empty == <<>>

\* String.prototype.toLowerCase, character by character.
LowerChar(c) ==
    CASE c = "B" -> "b"
      [] c = "F" -> "f"
      [] OTHER -> c

toLowerCase(s) == [i \in DOMAIN s |-> LowerChar(s[i])]

IsSpace(c) == c = " "

RECURSIVE trimStart(_)
trimStart(s) ==
    IF s # <<>> /\ IsSpace(Head(s)) THEN trimStart(Tail(s)) ELSE s

RECURSIVE trimEnd(_)
trimEnd(s) ==
    IF s # <<>> /\ IsSpace(s[Len(s)]) THEN trimEnd(SubSeq(s, 1, Len(s) - 1)) ELSE s

\* String.prototype.trim
trim(s) == trimEnd(trimStart(s))

RECURSIVE joinNoSep(_, _)
joinNoSep(names, sep) ==
    IF names = <<>> THEN <<>> ELSE names[1] \o joinNoSep(Tail(names), sep)

\* Array.prototype.join(sep)
RECURSIVE join(_, _)
join(names, sep) ==
    IF names = <<>> THEN <<>>
    ELSE IF Len(names) = 1 THEN names[1]
    ELSE names[1] \o sep \o join(Tail(names), sep)

\* ------------------------------------------------------------ JS values
Str(s) == [t |-> "string", s |-> s]
Undefined == [t |-> "undefined", s |-> <<>>]
Num == [t |-> "number", s |-> <<>>]

IsString(v) == v.t = "string"

\* An element of the parsed array: an object with name and description, or null.
Obj(n, d) == [t |-> "object", name |-> n, description |-> d]
Null == [t |-> "null", name |-> Undefined, description |-> Undefined]

Elements ==
    {Null, Obj(Undefined, Undefined), Obj(Num, Undefined),
     Obj(Str(empty), Undefined), Obj(Str(blank), Undefined),
     Obj(Str(bug), Undefined), Obj(Str(Bug), Undefined),
     Obj(Str(feature), Undefined), Obj(Str(Feature), Undefined),
     Obj(Str(feature), Str(docs))}

SeqsUpTo(S, n) == UNION {[1..k -> S] : k \in 0..n}

\* ------------------------------------------------------------ model response
\* The raw response text, by its structure: whether it is wrapped in code-fence
\* markers, the kind of its top-level JSON value ("garbage": not JSON at all,
\* e.g. a truncated array), and the objects written in it.
Text(f, k, its) == [fence |-> f, kind |-> k, items |-> its]

Responses ==
    {Text(f, "array", its) : f \in BOOLEAN, its \in SeqsUpTo(Elements, MaxCands)}
    \cup {Text(FALSE, k, its) : k \in {"object", "garbage"},
                                its \in {<<e>> : e \in {Obj(Undefined, Undefined),
                                                        Obj(Str(bug), Undefined),
                                                        Obj(Str(feature), Str(docs))}}}
    \cup {Text(FALSE, "scalar", <<>>)}

JSONparseAnyArray(text) ==
    IF text.fence \/ text.kind = "garbage"
    THEN [ok |-> FALSE, isArray |-> FALSE, value |-> <<>>]
    ELSE [ok |-> TRUE, isArray |-> TRUE, value |-> text.items]

\* The replies of the two-run scenario: each run is handed a candidate for the
\* same new name.
RaceResponses ==
    {Text(FALSE, "array", its) :
       its \in {<<Obj(Str(feature), Undefined)>>,
                <<Obj(Str(Feature), Undefined)>>,
                <<Obj(Str(bug), Undefined), Obj(Str(feature), Str(docs))>>}}

\* JSON.parse(text): throws on anything that is not JSON, fence markers included.
JSONparse(text) ==
    IF text.fence \/ text.kind = "garbage"
    THEN [ok |-> FALSE, isArray |-> FALSE, value |-> <<>>]
    ELSE [ok |-> TRUE, isArray |-> text.kind = "array", value |-> text.items]

RegexMatchesFirst(text) ==
    LET hit(e) == e.t = "object" /\ IsString(e.name) /\ e.name.s # <<>>
        hits == SelectSeq(text.items, hit)
    IN IF hits = <<>> THEN <<>> ELSE <<Obj(hits[1].name, Undefined)>>

\* text.match(/"name":\s*"([^"]+)"/g) mapped to {name: ...}: every name field in
\* the raw text whose value is a non-empty string, in order; nothing else is kept.
RegexMatches(text) ==
    LET hit(e) == e.t = "object" /\ IsString(e.name) /\ e.name.s # <<>>
        hits == SelectSeq(text.items, hit)
    IN [i \in DOMAIN hits |-> Obj(hits[i].name, Undefined)]

\* ------------------------------------------------------------ label store
\* The store keeps names unique up to case and rejects names that are not a
\* non-blank string.  Its conflict answer is the error line 131 recognises:
\* status 422 with a message that includes 'already exists'.
ValidName(v) == IsString(v) /\ trim(v.s) # <<>>

StoreHas(st, s) == \E i \in DOMAIN st : toLowerCase(st[i]) = toLowerCase(s)

Ok == [ok |-> TRUE, status |-> 201, alreadyExists |-> FALSE]
Err(st, ae) == [ok |-> FALSE, status |-> st, alreadyExists |-> ae]

\* What createLabel may answer for a name, given the store.
CreateLabelResults(st, v) ==
    {Err(500, FALSE)} \cup
    (IF ~ValidName(v) THEN {Err(422, FALSE)}
     ELSE IF StoreHas(st, v.s) THEN {Err(422, TRUE)}
     ELSE {Ok})

InitialStores == {<<>>, <<bug, docs>>}

\* Names another creator may add to the store while a run is in progress.
ExternalNames == {feature}

\* ------------------------------------------------------------ state
VARIABLES
    store,            \* the remote label store: label names, in listing order
    pc,               \* pc[r]: where run r is
    rev,              \* rev[r]: which revision of run() r executes
    service,          \* what the model service may answer: "any" reply, or the "race" replies
    issue,            \* issue[r]: payload.issue is present
    repoLabels,       \* repoLabels[r]: the snapshot listed at the start
    text,             \* text[r]: the raw model response
    suggestedLabels,  \* suggestedLabels[r]: the parsed candidates
    idx,              \* idx[r]: index of the candidate the loop is at
    labelsToAdd,      \* labelsToAdd[r]: the plan
    pushedBy,         \* pushedBy[r][k]: index of the candidate that pushed labelsToAdd[r][k]
    failed,           \* failed[r]: "none", or the stage whose error setFailed reported
    output,           \* output[r]: the output 'labels-applied'
    calls             \* calls[r]: the external calls made, in order, with results

vars == <<store, pc, rev, service, issue, repoLabels, text, suggestedLabels, idx,
          labelsToAdd, pushedBy, failed, output, calls>>

NoText == Text(FALSE, "scalar", <<>>)
NoOutput == [set |-> FALSE, value |-> <<>>]
Call(op, i, v, res) == [op |-> op, idx |-> i, name |-> v, res |-> res]

ResultKind(res) ==
    IF res.ok THEN "ok"
    ELSE IF res.status = 422 /\ res.alreadyExists THEN "conflict"
    ELSE IF res.status = 422 THEN "invalid"
    ELSE "error"

InitRun(active) ==
    /\ pc \in [Runs -> {"start", "off"}]
    /\ \A r \in Runs : pc[r] = "start" <=> r \in active
    /\ rev \in [Runs -> {1, 2}]
    /\ issue \in [Runs -> BOOLEAN]
    /\ \A r \in Runs \ active : rev[r] = 1 /\ issue[r] = FALSE
    /\ repoLabels = [r \in Runs |-> <<>>]
    /\ text = [r \in Runs |-> NoText]
    /\ suggestedLabels = [r \in Runs |-> <<>>]
    /\ idx = [r \in Runs |-> 1]
    /\ labelsToAdd = [r \in Runs |-> <<>>]
    /\ pushedBy = [r \in Runs |-> <<>>]
    /\ failed = [r \in Runs |-> "none"]
    /\ output = [r \in Runs |-> NoOutput]
    /\ calls = [r \in Runs |-> <<>>]

Init ==
    /\ store \in InitialStores
    /\ service = "any"
    /\ InitRun({1})

\* ------------------------------------------------------------ steps of run()
ThrowSwallowed(r, stage) ==
    /\ UNCHANGED failed
    /\ pc' = [pc EXCEPT ![r] = "done"]

\* The outer catch: core.setFailed, and run() returns.
Throw(r, stage) ==
    /\ failed' = [failed EXCEPT ![r] = stage]
    /\ pc' = [pc EXCEPT ![r] = "done"]

StartNoCheck(r) ==
    /\ pc[r] = "start"
    /\ pc' = [pc EXCEPT ![r] = "list"]
    /\ UNCHANGED <<store, rev, service, issue, repoLabels, text, suggestedLabels, idx,
                   labelsToAdd, pushedBy, failed, output, calls>>

\* lines 14-21: no issue in the payload ends the run at once.
Start(r) ==
    /\ pc[r] = "start"
    /\ pc' = [pc EXCEPT ![r] = IF issue[r] THEN "list" ELSE "done"]
    /\ UNCHANGED <<store, rev, service, issue, repoLabels, text, suggestedLabels, idx,
                   labelsToAdd, pushedBy, failed, output, calls>>

\* lines 32-35: the inventory snapshot.
ListLabels(r) ==
    /\ pc[r] = "list"
    /\ \E ok \in BOOLEAN :
         /\ calls' = [calls EXCEPT ![r] =
                        Append(@, Call("listLabelsForRepo", 0, Undefined,
                                       IF ok THEN "ok" ELSE "error"))]
         /\ IF ok
            THEN /\ repoLabels' = [repoLabels EXCEPT ![r] = store]
                 /\ pc' = [pc EXCEPT ![r] = "generate"]
                 /\ UNCHANGED failed
            ELSE /\ Throw(r, "list")
                 /\ UNCHANGED repoLabels
    /\ UNCHANGED <<store, rev, service, issue, text, suggestedLabels, idx, labelsToAdd, pushedBy, output>>

\* lines 68-87: the model call.
Generate(r) ==
    /\ pc[r] = "generate"
    /\ \/ \E t \in (IF service = "race" THEN RaceResponses ELSE Responses) :
            /\ text' = [text EXCEPT ![r] = t]
            /\ calls' = [calls EXCEPT ![r] =
                           Append(@, Call("generateContent", 0, Undefined, "ok"))]
            /\ pc' = [pc EXCEPT ![r] = "parse"]
            /\ UNCHANGED failed
       \/ /\ calls' = [calls EXCEPT ![r] =
                           Append(@, Call("generateContent", 0, Undefined, "error"))]
          /\ Throw(r, "generate")
          /\ UNCHANGED text
    /\ UNCHANGED <<store, rev, service, issue, repoLabels, suggestedLabels, idx, labelsToAdd, pushedBy, output>>

\* lines 90-102: the first revision fails the run when the text is not a JSON array.
Parse1(r) ==
    /\ pc[r] = "parse" /\ rev[r] = 1
    /\ LET p == JSONparse(text[r]) IN
         IF p.ok /\ p.isArray
         THEN /\ suggestedLabels' = [suggestedLabels EXCEPT ![r] = p.value]
              /\ pc' = [pc EXCEPT ![r] = "loop"]
              /\ UNCHANGED failed
         ELSE /\ Throw(r, "parse")
              /\ UNCHANGED suggestedLabels
    /\ UNCHANGED <<store, rev, service, issue, repoLabels, text, idx, labelsToAdd, pushedBy, output, calls>>

\* lines 243-261: the second revision falls back to the regex, and returns
\* without failing when it extracts nothing.
Parse2(r) ==
    /\ pc[r] = "parse" /\ rev[r] = 2
    /\ LET p == JSONparse(text[r])
           matches == RegexMatches(text[r])
       IN IF p.ok /\ p.isArray
          THEN /\ suggestedLabels' = [suggestedLabels EXCEPT ![r] = p.value]
               /\ pc' = [pc EXCEPT ![r] = "loop"]
          ELSE IF matches # <<>>
          THEN /\ suggestedLabels' = [suggestedLabels EXCEPT ![r] = matches]
               /\ pc' = [pc EXCEPT ![r] = "loop"]
          ELSE /\ pc' = [pc EXCEPT ![r] = "done"]
               /\ UNCHANGED suggestedLabels
    /\ UNCHANGED <<store, rev, service, issue, repoLabels, text, idx, labelsToAdd, pushedBy, failed,
                   output, calls>>

\* repoLabels.find(l => l.name.toLowerCase() === labelName.toLowerCase())
findExact(labels, s) == \E i \in DOMAIN labels : labels[i] = s

find(labels, s) == \E i \in DOMAIN labels : toLowerCase(labels[i]) = toLowerCase(s)

Skips(v) == ~IsString(v) \/ trim(v.s) = <<>>

PushFront(r, s) ==
    /\ labelsToAdd' = [labelsToAdd EXCEPT ![r] = <<s>> \o @]
    /\ pushedBy' = [pushedBy EXCEPT ![r] = Append(@, idx[r])]

Push(r, s) ==
    /\ labelsToAdd' = [labelsToAdd EXCEPT ![r] = Append(@, s)]
    /\ pushedBy' = [pushedBy EXCEPT ![r] = Append(@, idx[r])]

NoPush == UNCHANGED <<labelsToAdd, pushedBy>>

NextCandidate(r) == idx' = [idx EXCEPT ![r] = @ + 1]

IssueCreate(r) ==
    /\ pc' = [pc EXCEPT ![r] = "create"]
    /\ UNCHANGED <<idx, labelsToAdd, pushedBy, failed>>

\* lines 105-118, 138-141: one candidate of the first revision, up to the
\* createLabel call.
Iterate1(r) ==
    /\ pc[r] = "loop" /\ rev[r] = 1
    /\ idx[r] <= Len(suggestedLabels[r])
    /\ LET labelData == suggestedLabels[r][idx[r]] IN
         IF labelData.t = "null"
         THEN Throw(r, "loop") /\ UNCHANGED <<idx, labelsToAdd, pushedBy>>
         ELSE IF Skips(labelData.name)
         THEN NextCandidate(r) /\ UNCHANGED <<pc, labelsToAdd, pushedBy, failed>>
         ELSE IF find(repoLabels[r], labelData.name.s)
         THEN Push(r, labelData.name.s) /\ NextCandidate(r) /\ UNCHANGED <<pc, failed>>
         ELSE IssueCreate(r)
    /\ UNCHANGED <<store, rev, service, issue, repoLabels, text, suggestedLabels, output, calls>>

\* lines 264-271, 291-294: one candidate of the second revision; the name is not
\* validated, and the find callback throws on a name that is not a string.
Iterate2(r) ==
    /\ pc[r] = "loop" /\ rev[r] = 2
    /\ idx[r] <= Len(suggestedLabels[r])
    /\ LET labelData == suggestedLabels[r][idx[r]] IN
         IF labelData.t = "null"
         THEN Throw(r, "loop") /\ UNCHANGED <<idx, labelsToAdd, pushedBy>>
         ELSE IF ~IsString(labelData.name)
         THEN IF repoLabels[r] # <<>>
              THEN Throw(r, "loop") /\ UNCHANGED <<idx, labelsToAdd, pushedBy>>
              ELSE IssueCreate(r)
         ELSE IF find(repoLabels[r], labelData.name.s)
         THEN Push(r, labelData.name.s) /\ NextCandidate(r) /\ UNCHANGED <<pc, failed>>
         ELSE IssueCreate(r)
    /\ UNCHANGED <<store, rev, service, issue, repoLabels, text, suggestedLabels, output, calls>>

IsConflictNever(e) == FALSE

\* line 131
IsConflict(e) == e.status = 422 /\ e.alreadyExists

\* lines 119-137: createLabel answers; the first revision keeps the name on
\* success and on the already-exists conflict, and drops it otherwise.
CreateLabel1(r) ==
    /\ pc[r] = "create" /\ rev[r] = 1
    /\ LET v == suggestedLabels[r][idx[r]].name IN
       \E res \in CreateLabelResults(store, v) :
         /\ calls' = [calls EXCEPT ![r] =
                        Append(@, Call("createLabel", idx[r], v, ResultKind(res)))]
         /\ store' = IF res.ok THEN Append(store, v.s) ELSE store
         /\ IF res.ok \/ IsConflict(res)
            THEN Push(r, v.s)
            ELSE NoPush
         /\ NextCandidate(r)
         /\ pc' = [pc EXCEPT ![r] = "loop"]
    /\ UNCHANGED <<rev, service, issue, repoLabels, text, suggestedLabels, failed, output>>

\* lines 272-285: createLabel answers; the second revision re-lists on any error.
CreateLabel2(r) ==
    /\ pc[r] = "create" /\ rev[r] = 2
    /\ LET v == suggestedLabels[r][idx[r]].name IN
       \E res \in CreateLabelResults(store, v) :
         /\ calls' = [calls EXCEPT ![r] =
                        Append(@, Call("createLabel", idx[r], v, ResultKind(res)))]
         /\ store' = IF res.ok THEN Append(store, v.s) ELSE store
         /\ IF res.ok
            THEN /\ Push(r, v.s)
                 /\ NextCandidate(r)
                 /\ pc' = [pc EXCEPT ![r] = "loop"]
            ELSE /\ pc' = [pc EXCEPT ![r] = "relist"]
                 /\ UNCHANGED <<idx, labelsToAdd, pushedBy>>
    /\ UNCHANGED <<rev, service, issue, repoLabels, text, suggestedLabels, failed, output>>

\* lines 286-289: the re-check after a failed creation; the call may fail, and
\* the find callback throws on a name that is not a string.
Relist(r) ==
    /\ pc[r] = "relist" /\ rev[r] = 2
    /\ LET v == suggestedLabels[r][idx[r]].name IN
       \E ok \in BOOLEAN :
         /\ calls' = [calls EXCEPT ![r] =
                        Append(@, Call("listLabelsForRepo", idx[r], v,
                                       IF ok THEN "ok" ELSE "error"))]
         /\ IF ~ok
            THEN Throw(r, "relist") /\ UNCHANGED <<idx, labelsToAdd, pushedBy>>
            ELSE IF ~IsString(v)
            THEN IF store # <<>>
                 THEN Throw(r, "relist") /\ UNCHANGED <<idx, labelsToAdd, pushedBy>>
                 ELSE /\ NextCandidate(r)
                      /\ pc' = [pc EXCEPT ![r] = "loop"]
                      /\ UNCHANGED <<labelsToAdd, pushedBy, failed>>
            ELSE /\ IF find(store, v.s) THEN Push(r, v.s) ELSE NoPush
                 /\ NextCandidate(r)
                 /\ pc' = [pc EXCEPT ![r] = "loop"]
                 /\ UNCHANGED failed
    /\ UNCHANGED <<store, rev, service, issue, repoLabels, text, suggestedLabels, output>>

AttachesEvenEmpty(plan) == Len(plan) >= 0

\* line 144
AttachesAlways(plan) == TRUE

Attaches(plan) == Len(plan) > 0

\* lines 144-157: attach the plan and report it, or report the empty outcome.
Attach(r) ==
    /\ pc[r] = "loop"
    /\ idx[r] > Len(suggestedLabels[r])
    /\ IF Attaches(labelsToAdd[r])
       THEN \E ok \in BOOLEAN :
              /\ calls' = [calls EXCEPT ![r] =
                             Append(@, Call("addLabels", 0, Undefined,
                                            IF ok THEN "ok" ELSE "error"))]
              /\ IF ok
                 THEN /\ output' = [output EXCEPT ![r] =
                                      [set |-> TRUE, value |-> join(labelsToAdd[r], <<",">>)]]
                      /\ pc' = [pc EXCEPT ![r] = "done"]
                      /\ UNCHANGED failed
                 ELSE Throw(r, "add") /\ UNCHANGED output
       ELSE /\ output' = [output EXCEPT ![r] = [set |-> TRUE, value |-> <<>>]]
            /\ pc' = [pc EXCEPT ![r] = "done"]
            /\ UNCHANGED <<failed, calls>>
    /\ UNCHANGED <<store, rev, service, issue, repoLabels, text, suggestedLabels, idx, labelsToAdd, pushedBy>>

\* Another creator adds a label while some run is between its listing and its end.
ExternalCreate ==
    /\ \E r \in Runs : pc[r] \in {"generate", "parse", "loop", "create", "relist"}
    /\ \E s \in ExternalNames :
         /\ ~StoreHas(store, s)
         /\ store' = Append(store, s)
    /\ UNCHANGED <<pc, rev, service, issue, repoLabels, text, suggestedLabels, idx,
                   labelsToAdd, pushedBy, failed, output, calls>>

Step(r) ==
    \/ Start(r)
    \/ ListLabels(r)
    \/ Generate(r)
    \/ Parse1(r)
    \/ Parse2(r)
    \/ Iterate1(r)
    \/ Iterate2(r)
    \/ CreateLabel1(r)
    \/ CreateLabel2(r)
    \/ Relist(r)
    \/ Attach(r)

Next == (\E r \in Runs : Step(r)) \/ ExternalCreate

Spec == Init /\ [][Next]_vars

\* Two runs triggered for issues of the same repository, the model service
\* handing each a candidate for the same new name.
InitRace ==
    /\ store \in InitialStores
    /\ service = "race"
    /\ InitRun({1, 2})
    /\ \A r \in Runs : issue[r]

SpecRace == InitRace /\ [][Next]_vars

\* ------------------------------------------------------------ properties
Done(r) == pc[r] = "done"

CallsOf(r, op) == {k \in DOMAIN calls[r] : calls[r][k].op = op}

\* A createLabel call for candidate i has been issued.
CreateIssued(r, i) ==
    \/ pc[r] = "create" /\ idx[r] = i
    \/ \E k \in CallsOf(r, "createLabel") : calls[r][k].idx = i

InInventory(r, s) ==
    \E j \in DOMAIN repoLabels[r] : toLowerCase(repoLabels[r][j]) = toLowerCase(s)

Count(names, s) == Cardinality({k \in DOMAIN names : names[k] = s})

\* The run has parsed the response (it is in or past the reconciliation loop,
\* or it ended at the parse step).
PastParse(r) ==
    /\ pc[r] \in {"loop", "create", "relist", "done"}
    /\ \E k \in CallsOf(r, "generateContent") : calls[r][k].res = "ok"

\* C1: the names passed to addLabels hold no two entries that are equal after
\* lower-casing.
C1_NoDuplicates ==
    \A r \in Runs :
      CallsOf(r, "addLabels") # {} =>
        \A i, j \in DOMAIN labelsToAdd[r] :
          i # j => toLowerCase(labelsToAdd[r][i]) # toLowerCase(labelsToAdd[r][j])

\* C2: when createLabel answered a candidate with the already-exists conflict,
\* the finished run has called addLabels and its plan holds that name exactly once.
C2_ConflictKeptOnce ==
    \A r \in Runs :
      Done(r) =>
        \A k \in CallsOf(r, "createLabel") :
          calls[r][k].res = "conflict" =>
            /\ CallsOf(r, "addLabels") # {}
            /\ Count(labelsToAdd[r], calls[r][k].name.s) = 1

\* C3: when createLabel answered a candidate with an error that is no conflict,
\* that candidate pushes nothing onto the plan and the run goes on past it: the
\* run is not failed while at that candidate.
C3_OtherErrorDropped ==
    \A r \in Runs :
      \A k \in CallsOf(r, "createLabel") :
        calls[r][k].res \in {"invalid", "error"} =>
          /\ \A m \in DOMAIN pushedBy[r] : pushedBy[r][m] # calls[r][k].idx
          /\ ~(failed[r] \in {"loop", "relist"} /\ idx[r] = calls[r][k].idx)

\* C4: nothing inside the reconciliation loop ends the run in Failed.
C4_LoopNeverFails ==
    \A r \in Runs : failed[r] \notin {"loop", "relist"}

\* C5: a candidate whose name is missing, not a string or blank gets no
\* createLabel call, pushes nothing, and does not fail the run.
C5_InvalidNameSkipped ==
    \A r \in Runs :
      \A i \in DOMAIN suggestedLabels[r] :
        (suggestedLabels[r][i].t = "object" /\ ~ValidName(suggestedLabels[r][i].name)) =>
          /\ ~CreateIssued(r, i)
          /\ \A m \in DOMAIN pushedBy[r] : pushedBy[r][m] # i
          /\ ~(failed[r] \in {"loop", "relist"} /\ idx[r] = i)

\* C6: no createLabel call is issued for a candidate whose lower-cased name
\* equals the lower-cased name of a label of the snapshot.
C6_NoCreateForExisting ==
    \A r \in Runs :
      \A i \in DOMAIN suggestedLabels[r] :
        (IsString(suggestedLabels[r][i].name)
           /\ InInventory(r, suggestedLabels[r][i].name.s)) =>
          ~CreateIssued(r, i)

\* A run has pushed candidate "Bug" on the strength of the snapshot's "bug".
C6_Witness ==
    \E r \in Runs :
      /\ Done(r)
      /\ repoLabels[r] = <<bug, docs>>
      /\ \E m \in DOMAIN pushedBy[r] :
           suggestedLabels[r][pushedBy[r][m]].name = Str(Bug)

\* C7: a plan entry pushed by a candidate that matches the snapshot is the
\* snapshot label's own name; with snapshot [bug, docs], candidates
\* [Bug, feature] and every call succeeding, the plan is [bug, feature] after
\* exactly one createLabel call.
C7_CanonicalName ==
    \A r \in Runs :
      /\ \A m \in DOMAIN labelsToAdd[r] :
           InInventory(r, suggestedLabels[r][pushedBy[r][m]].name.s) =>
             \E j \in DOMAIN repoLabels[r] : repoLabels[r][j] = labelsToAdd[r][m]
      /\ (/\ Done(r) /\ failed[r] = "none"
          /\ repoLabels[r] = <<bug, docs>>
          /\ suggestedLabels[r] = <<Obj(Str(Bug), Undefined), Obj(Str(feature), Str(docs))>>
          /\ \A k \in DOMAIN calls[r] : calls[r][k].res = "ok") =>
           /\ labelsToAdd[r] = <<bug, feature>>
           /\ Cardinality(CallsOf(r, "createLabel")) = 1

\* The response is JSON whose top-level value is not an array.
NonSequence(r) == ~text[r].fence /\ text[r].kind \in {"object", "scalar"}

NoLabelCalls(r) == CallsOf(r, "createLabel") = {} /\ CallsOf(r, "addLabels") = {}

C9_FenceTransparent ==
    \A r \in Runs :
      (PastParse(r) /\ text[r].fence /\ text[r].kind = "array") =>
        /\ failed[r] # "parse"
        /\ suggestedLabels[r] = text[r].items
        /\ (Done(r) /\ text[r].items = <<>>) => output[r].set

\* The loop is over and the plan is empty.
EmptyPlanAtExit(r) ==
    /\ pc[r] = "loop"
    /\ idx[r] > Len(suggestedLabels[r])
    /\ labelsToAdd[r] = <<>>

\* C10: with an empty candidate list the plan is empty, and a run whose loop
\* ends with an empty plan makes no addLabels call, sets the output to the
\* empty string and ends without failure.
C10_EmptyOutcome ==
    [][\A r \in Runs :
         /\ (pc[r] = "loop" /\ suggestedLabels[r] = <<>>) => labelsToAdd[r] = <<>>
         /\ (EmptyPlanAtExit(r) /\ pc'[r] # pc[r]) =>
              /\ pc'[r] = "done"
              /\ failed'[r] = "none"
              /\ output'[r] = [set |-> TRUE, value |-> <<>>]
              /\ calls'[r] = calls[r]]_vars

\* A run dropped every candidate of a non-empty list and reported the empty
\* outcome.
C10_Witness ==
    \E r \in Runs :
      /\ Done(r)
      /\ suggestedLabels[r] # <<>>
      /\ labelsToAdd[r] = <<>>
      /\ output[r] = [set |-> TRUE, value |-> <<>>]
      /\ CallsOf(r, "addLabels") = {}

\* C11: a run whose payload holds no issue ends at once, not failed, having made
\* no external call.
C11_NoIssueNoCalls ==
    \A r \in Runs :
      (~issue[r] /\ pc[r] \notin {"start", "off"}) =>
        Done(r) /\ failed[r] = "none" /\ calls[r] = <<>>

\* A run without an issue has ended.
C11_Witness ==
    \E r \in Runs : ~issue[r] /\ Done(r) /\ calls[r] = <<>>

\* Where names[k] starts in the comma-joined text.
RECURSIVE Offset(_, _)
Offset(names, k) ==
    IF k = 1 THEN 0 ELSE Offset(names, k - 1) + Len(names[k - 1]) + 1

\* v is the names written one after the other with a comma between neighbours.
IsCommaJoined(v, names) ==
    IF names = <<>> THEN v = <<>>
    ELSE /\ Len(v) = Offset(names, Len(names)) + Len(names[Len(names)])
         /\ \A k \in DOMAIN names :
              /\ SubSeq(v, Offset(names, k) + 1, Offset(names, k) + Len(names[k])) = names[k]
              /\ k > 1 => v[Offset(names, k)] = ","

\* What 'labels-applied' is to hold: the joined names passed to addLabels, or
\* the empty string when addLabels was not called.
OutputAsAttached(r) ==
    /\ output[r].set
    /\ IF CallsOf(r, "addLabels") # {}
       THEN IsCommaJoined(output[r].value, labelsToAdd[r])
       ELSE output[r].value = <<>>

\* The primary parse fails and the raw text holds no name field to extract.
NothingToExtract(r) ==
    /\ text[r].fence \/ text[r].kind # "array"
    /\ \A i \in DOMAIN text[r].items :
         ~(IsString(text[r].items[i].name) /\ text[r].items[i].name.s # <<>>)

\* C12 as stated: every run that ends without failure has set 'labels-applied',
\* to the comma-joined names passed to addLabels or to the empty string.
C12_OutputAlwaysReported ==
    \A r \in Runs :
      (Done(r) /\ failed[r] = "none") => OutputAsAttached(r)

\* C12 amended: a run that ends without failure has set 'labels-applied' to the
\* comma-joined names passed to addLabels, or to the empty string when it made
\* no addLabels call, unless it ended at the no-issue early exit or because no
\* name could be extracted; those two runs end without setting the output.
\* An output once set is not set again.
C12_OutputReported ==
    [][\A r \in Runs :
         /\ ((Done(r) /\ failed[r] = "none") =>
               IF ~issue[r] \/ NothingToExtract(r)
               THEN ~output[r].set /\ CallsOf(r, "addLabels") = {}
               ELSE OutputAsAttached(r))'
         /\ output[r].set => output'[r] = output[r]]_vars

\* A run attached two labels and reported them.
C12_Witness ==
    \E r \in Runs :
      /\ Done(r) /\ failed[r] = "none"
      /\ Len(labelsToAdd[r]) = 2
      /\ output[r].set
      /\ Len(output[r].value) > Len(labelsToAdd[r][1]) + Len(labelsToAdd[r][2])

\* Run r listed a store without the name and was handed a candidate for it.
RacesFor(r, s) ==
    /\ ~InInventory(r, s)
    /\ \E i \in DOMAIN suggestedLabels[r] :
         /\ IsString(suggestedLabels[r][i].name)
         /\ toLowerCase(suggestedLabels[r][i].name.s) = toLowerCase(s)

\* Every call of the run was answered, with success or with the conflict.
NoFaults(r) == \A k \in DOMAIN calls[r] : calls[r][k].res \in {"ok", "conflict"}

StoreCount(s) ==
    Cardinality({i \in DOMAIN store : toLowerCase(store[i]) = toLowerCase(s)})

Attached(r, s) ==
    /\ \E k \in CallsOf(r, "addLabels") : calls[r][k].res = "ok"
    /\ \E m \in DOMAIN labelsToAdd[r] : toLowerCase(labelsToAdd[r][m]) = toLowerCase(s)

\* C13: two runs that both listed the store without the name and both hold a
\* candidate for it, with every call answered (by success or by the conflict):
\* when both have ended, the store holds exactly one label of that name, neither
\* run is failed, and both attached the name.
C13_RaceBothAttach ==
    (/\ \A r \in Runs : Done(r) /\ RacesFor(r, feature) /\ NoFaults(r)) =>
      /\ StoreCount(feature) = 1
      /\ \A r \in Runs : failed[r] = "none" /\ Attached(r, feature)

\* Both runs called createLabel for the name; one won, the other met the
\* conflict, and both ended.
C13_Witness ==
    /\ \A r \in Runs : Done(r) /\ RacesFor(r, feature) /\ NoFaults(r)
    /\ \E r \in Runs : \E k \in CallsOf(r, "createLabel") :
         calls[r][k].res = "ok" /\ toLowerCase(calls[r][k].name.s) = toLowerCase(feature)
    /\ \E r \in Runs : \E k \in CallsOf(r, "createLabel") :
         calls[r][k].res = "conflict"

\* C14: within one run no two createLabel calls carry names that are equal
\* after lower-casing.
C14_OneCreatePerName ==
    \A r \in Runs :
      \A k1, k2 \in CallsOf(r, "createLabel") :
        (/\ k1 # k2
         /\ IsString(calls[r][k1].name)
         /\ IsString(calls[r][k2].name)) =>
          toLowerCase(calls[r][k1].name.s) # toLowerCase(calls[r][k2].name.s)

\* C15: a run that has ended with a non-empty plan has called addLabels.
C15_PlanReachesAttach ==
    \A r \in Runs :
      (Done(r) /\ labelsToAdd[r] # <<>>) => CallsOf(r, "addLabels") # {}

\* The primary parse succeeds with a sequence.
PrimaryParses(r) == ~text[r].fence /\ text[r].kind = "array"

\* The name fields written in the raw text with a non-empty string value.
NamesInText(r) ==
    SelectSeq(text[r].items, LAMBDA e : IsString(e.name) /\ e.name.s # <<>>)

FallbackUsed(r) ==
    /\ Len(suggestedLabels[r]) = Len(NamesInText(r))
    /\ \A i \in DOMAIN suggestedLabels[r] :
         suggestedLabels[r][i] = Obj(NamesInText(r)[i].name, Undefined)

CallOrder(r) ==
    LET c == calls[r] IN
    /\ Len(c) >= 1 => c[1].op = "listLabelsForRepo" /\ c[1].idx = 0
    /\ Len(c) >= 2 => c[2].op = "generateContent" /\ c[1].res = "ok"
    /\ Len(c) >= 3 => c[2].res = "ok"
    /\ \A k \in DOMAIN c : k >= 3 => c[k].op \in {"createLabel", "listLabelsForRepo", "addLabels"}
    /\ \A k1, k2 \in CallsOf(r, "createLabel") : k1 < k2 => c[k1].idx < c[k2].idx
    /\ \A k \in CallsOf(r, "addLabels") : k = Len(c) /\ labelsToAdd[r] # <<>>
    /\ pc[r] = "create" => CallsOf(r, "addLabels") = {}

\* A listing after the model call: the re-check of a failed creation.
Rechecks(r) == {k \in CallsOf(r, "listLabelsForRepo") : k >= 3}

\* C17 as stated: the calls are the listing, the model call, createLabel calls
\* in candidate order, and at most one addLabels call with a non-empty plan;
\* nothing else is called.
C17_CallOrder ==
    \A r \in Runs : CallOrder(r) /\ Rechecks(r) = {}

\* C17 amended: as stated for the first revision; in the second revision each
\* createLabel call that failed is followed at once by one more
\* listLabelsForRepo call (the re-check), and by no other.
C17_CallOrderWithRecheck ==
    \A r \in Runs :
      /\ CallOrder(r)
      /\ rev[r] = 1 => Rechecks(r) = {}
      /\ \A k \in Rechecks(r) :
           /\ calls[r][k - 1].op = "createLabel"
           /\ calls[r][k - 1].res # "ok"
           /\ calls[r][k - 1].idx = calls[r][k].idx
      /\ \A k \in CallsOf(r, "createLabel") :
           (rev[r] = 2 /\ calls[r][k].res # "ok" /\ k < Len(calls[r])) =>
             k + 1 \in Rechecks(r)

\* A second-revision run made two createLabel calls, re-checked after the one
\* that failed, and called addLabels last.
C17_Witness ==
    \E r \in Runs :
      /\ Done(r)
      /\ Cardinality(CallsOf(r, "createLabel")) = 2
      /\ Rechecks(r) # {}
      /\ CallsOf(r, "addLabels") # {}

\* Candidate i was matched in the snapshot or its creation succeeded.
MatchedOrCreated(r, i) ==
    \/ /\ IsString(suggestedLabels[r][i].name)
       /\ InInventory(r, suggestedLabels[r][i].name.s)
    \/ \E k \in CallsOf(r, "createLabel") : calls[r][k].idx = i /\ calls[r][k].res = "ok"

\* C18: the plan is the names of the candidates that pushed them, in candidate
\* order, and every candidate the loop has passed that was matched or created
\* has its entry.
C18_PlanInCandidateOrder ==
    \A r \in Runs :
      /\ Len(pushedBy[r]) = Len(labelsToAdd[r])
      /\ \A m \in DOMAIN labelsToAdd[r] :
           /\ pushedBy[r][m] \in DOMAIN suggestedLabels[r]
           /\ labelsToAdd[r][m] = suggestedLabels[r][pushedBy[r][m]].name.s
      /\ \A m1, m2 \in DOMAIN pushedBy[r] : m1 < m2 => pushedBy[r][m1] < pushedBy[r][m2]
      /\ \A i \in DOMAIN suggestedLabels[r] :
           (i < idx[r] /\ MatchedOrCreated(r, i)) =>
             \E m \in DOMAIN pushedBy[r] : pushedBy[r][m] = i

\* A run ended with a plan of two different names, the first from the first
\* candidate.
C18_Witness ==
    \E r \in Runs :
      /\ Done(r)
      /\ Len(labelsToAdd[r]) = 2
      /\ labelsToAdd[r][1] # labelsToAdd[r][2]
      /\ pushedBy[r] = <<1, 2>>

\* C19: once an addLabels call has failed the run is ended in Failed with
\* 'labels-applied' unset, and every label the run created is still in the
\* store; the output is set only after an addLabels call that succeeded or with
\* an empty plan.
C19_AttachFailure ==
    \A r \in Runs :
      /\ (\E k \in CallsOf(r, "addLabels") : calls[r][k].res = "error") =>
           /\ Done(r) /\ failed[r] = "add"
           /\ ~output[r].set
           /\ \A k \in CallsOf(r, "createLabel") :
                calls[r][k].res = "ok" =>
                  \E j \in DOMAIN store : store[j] = calls[r][k].name.s
      /\ output[r].set =>
           \/ \E k \in CallsOf(r, "addLabels") : calls[r][k].res = "ok"
           \/ labelsToAdd[r] = <<>>

\* A run created a label, then its addLabels call failed.
C19_Witness ==
    \E r \in Runs :
      /\ Done(r)
      /\ \E k \in CallsOf(r, "createLabel") : calls[r][k].res = "ok"
      /\ \E k \in CallsOf(r, "addLabels") : calls[r][k].res = "error"

====
